---- MODULE Spec2Model ----
(***************************************************************************)
(* Model of the weekly schedule generator: generate_schedule.assign_weeks  *)
(* and the script that calls it (example_main.py).                          *)
(*                                                                         *)
(* Python objects live on a heap so that aliasing is visible: Participant  *)
(* objects, their `events` list objects and Event objects each have a      *)
(* reference (an index into heap.P, heap.L, heap.E).  Dates are proleptic   *)
(* Gregorian ordinals, as datetime.date.toordinal() gives them.            *)
(***************************************************************************)
EXTENDS Integers, Sequences, FiniteSets

(***************************************************************************)
(* Bounds of the model.                                                    *)
(***************************************************************************)
MaxParticipants == 3
MaxCalls == 2
YearsBack == 3

\* example_main.py passes 2021 to every call.
ExampleYear == 2021

Years == (ExampleYear - YearsBack)..ExampleYear

\* example_main.py, lines 17-20
ExampleNames ==
  <<"Adam Adamsson", "Berit Beritsdotter", "Cecilia Ceciliadotter", "David Davidsson">>

RosterSizes == 0..(IF MaxParticipants < Len(ExampleNames) THEN MaxParticipants ELSE Len(ExampleNames))

\* example_main.py, lines 26 and 28
EventLabels == {"Indoor cleaning week", "Outdoor cleaning week"}

\* the names a caller may pass as start_participant: any roster name, or one
\* that no roster holds
StartNames ==
  {ExampleNames[k] : k \in RosterSizes \ {0}} \cup {"Nonexistent"}

VARIABLES
  heap,     \* the Python heap: [P: Participant objects, L: list objects, E: Event objects]
  rosters,  \* the script's lists of Participant references: part, part_with_e1, ...
  year,     \* the year the script passes to assign_weeks
  frame,    \* the arguments and locals of the (latest) assign_weeks call
  pc,       \* "main": between calls; "loop": inside assign_weeks after the lookup; "exited"
  exc       \* the uncaught exception that ended the script, or "none"

vars == <<heap, rosters, year, frame, pc, exc>>

(***************************************************************************)
(* datetime: ordinals, weekdays, ISO calendar (CPython's datetime.py).     *)
(***************************************************************************)
IsLeap(y) == (y % 4 = 0) /\ ((y % 100 # 0) \/ (y % 400 = 0))

\* _days_before_year
DaysBeforeYear(y) ==
  LET p == y - 1 IN p * 365 + (p \div 4) - (p \div 100) + (p \div 400)

DaysInYear(y) == IF IsLeap(y) THEN 366 ELSE 365

\* toordinal() of January 1 and of December d (d in 1..31) of year y
OrdJan1(y) == DaysBeforeYear(y) + 1
OrdDec(y, d) == DaysBeforeYear(y) + DaysInYear(y) - 31 + d
OrdJan(y, d) == DaysBeforeYear(y) + d

\* date.weekday(): Monday is 0
Weekday(ord) == (ord + 6) % 7
\* date.isoweekday(): Monday is 1
IsoWeekday(ord) == Weekday(ord) + 1

\* _isoweek1monday
IsoWeek1Monday(y) ==
  LET firstday == OrdJan1(y)
      firstweekday == Weekday(firstday)
      week1monday == firstday - firstweekday
  IN  IF firstweekday > 3 THEN week1monday + 7 ELSE week1monday

\* date.isocalendar()[1] of the date with ordinal `today` in calendar year y
IsoCalendarWeek(y, today) ==
  LET week == (today - IsoWeek1Monday(y)) \div 7
  IN  IF today - IsoWeek1Monday(y) < 0
        THEN ((today - IsoWeek1Monday(y - 1)) \div 7) + 1
        ELSE IF week >= 52 /\ today >= IsoWeek1Monday(y + 1)
               THEN 1
               ELSE week + 1

\* line 77: datetime.date(year, 12, 31).isocalendar()[1]
LastWeek(y) == IsoCalendarWeek(y, OrdDec(y, 31))

\* strptime's pattern for %V is 5[0-3]|0[1-9]|[1-4]\d|\d : the text of the
\* week number must be a number in 0..53, or strptime raises ValueError
StrptimeMatches(week) == week \in 0..53

\* _strptime._calc_julian_from_V, then date.fromordinal: the date of weekday
\* 1 (Monday) of ISO week `week` of ISO year y, computed arithmetically
\* (a week beyond the year's last one runs on into the next year)
Strptime(y, week) ==
  LET correction == IsoWeekday(OrdJan(y, 4)) + 3
      ordinal == (week * 7) + 1 - correction
  IN  IF ordinal < 1
        THEN LET o2 == ordinal + OrdJan1(y) - OrdJan1(y - 1)
             IN  (o2 - 1) + OrdJan1(y - 1)
        ELSE (ordinal - 1) + OrdJan1(y)

\* line 85: the start date of the week's event
EventStart(y, week) == Strptime(y, week)
\* a slip of line 86: the end date parsed from `week` instead of `week + 1`
EventEndSameWeek(y, week) == Strptime(y, week)

\* line 86: the end date of the week's event
EventEnd(y, week) == Strptime(y, week + 1)
\* both strptime calls of lines 85-86 succeed
DatesParse(week) == StrptimeMatches(week) /\ StrptimeMatches(week + 1)

(***************************************************************************)
(* The heap.                                                               *)
(***************************************************************************)
EmptyHeap == [P |-> <<>>, L |-> <<>>, E |-> <<>>]

\* Participant(name): a new object with a new empty events list (default_factory)
NewParticipant(h, name) ==
  [P |-> Append(h.P, [name |-> name, events |-> Len(h.L) + 1]),
   L |-> Append(h.L, <<>>),
   E |-> h.E]

\* lines 14-22 of example_main.py: part = [Participant(name) for name in ...]
RECURSIVE BuildRoster(_, _)
BuildRoster(h, n) ==
  IF n = 0 THEN h ELSE NewParticipant(BuildRoster(h, n - 1), ExampleNames[n])

\* the events list (a sequence of Event references) of participant reference p
EventsOf(h, p) == h.L[h.P[p].events]

\* a slip of line 65, copy.copy(p): a new Participant that shares the events
\* list of the original
ShallowCopyParticipant(h, p) ==
  [heap |-> [P |-> Append(h.P, [name |-> h.P[p].name, events |-> h.P[p].events]),
             L |-> h.L,
             E |-> h.E],
   ref |-> Len(h.P) + 1]

\* a slip of line 65, list(participants): no copy at all
NoCopyParticipant(h, p) == [heap |-> h, ref |-> p]

\* a slip of line 65, Participant(p.name): the copy loses the events
BareCopyParticipant(h, p) ==
  [heap |-> NewParticipant(h, h.P[p].name), ref |-> Len(h.P) + 1]

\* copy.deepcopy(p), line 65: a new Participant, a new list, a new Event per
\* event; gives the new heap and the reference of the copy
CopyParticipant(h, p) ==
  LET evs == EventsOf(h, p)
      nE == Len(h.E)
  IN  [heap |-> [P |-> Append(h.P, [name |-> h.P[p].name, events |-> Len(h.L) + 1]),
                 L |-> Append(h.L, [k \in 1..Len(evs) |-> nE + k]),
                 E |-> h.E \o [k \in 1..Len(evs) |-> h.E[evs[k]]]],
       ref |-> Len(h.P) + 1]

\* line 65: assignees = [copy.deepcopy(p) for p in participants]
RECURSIVE CopyAll(_, _, _)
CopyAll(h, participants, k) ==
  IF k = 0
    THEN [heap |-> h, assignees |-> <<>>]
    ELSE LET sofar == CopyAll(h, participants, k - 1)
             c == CopyParticipant(sofar.heap, participants[k])
         IN  [heap |-> c.heap, assignees |-> Append(sofar.assignees, c.ref)]

\* lines 68-70: the zero-based index of the first assignee named
\* start_participant; -1 stands for StopIteration
RECURSIVE FirstNamed(_, _, _, _)
FirstNamed(h, assignees, start_participant, k) ==
  IF k > Len(assignees) THEN -1
  ELSE IF h.P[assignees[k]].name = start_participant THEN k - 1
  ELSE FirstNamed(h, assignees, start_participant, k + 1)

\* a slip of lines 68-74: a start participant that is not found defaults to
\* the first one instead of raising
StartIdxOrFirst(h, assignees, start_participant) ==
  IF FirstNamed(h, assignees, start_participant, 1) = -1
    THEN 0
    ELSE FirstNamed(h, assignees, start_participant, 1)

StartIdx(h, assignees, start_participant) ==
  FirstNamed(h, assignees, start_participant, 1)

\* a slip of line 82: the index without the - 1
AssigneeIndexNoShift(start_idx, week, num_assignees) ==
  (start_idx + week) % num_assignees

\* line 82: the index expression
AssigneeIndex(start_idx, week, num_assignees) ==
  ((start_idx + week) % num_assignees) - 1

\* list indexing of a language without negative indices: -1 is out of range
ListPositionNoWrap(len, i) ==
  IF i >= 0 /\ i < len THEN i + 1 ELSE 0

\* Python's list indexing: a negative index counts from the end.  Gives the
\* position (1-based) of the element, or 0 for an IndexError
ListPosition(len, i) ==
  IF i >= 0 /\ i < len THEN i + 1
  ELSE IF i < 0 /\ i >= -len THEN len + i + 1
  ELSE 0

\* a slip of line 79: range(1, last_week)
RangeLastExclusive(last_week) == last_week - 1

\* line 79: the last element of range(1, last_week + 1)
RangeLast(last_week) == last_week

\* lines 82-88: assignees[...].events.append(Event(...))
AppendEvent(h, p, ev) ==
  [P |-> h.P,
   L |-> [h.L EXCEPT ![h.P[p].events] = Append(@, Len(h.E) + 1)],
   E |-> Append(h.E, ev)]

\* lines 82-88, one iteration of the loop body for `week`: the heap after
\* it and the exception it raised ("none" when the event was appended)
WeekBody(h, assignees, start_idx, y, event, week) ==
  IF Len(assignees) = 0 THEN [heap |-> h, raised |-> "ZeroDivisionError"]
  ELSE LET pos == ListPosition(Len(assignees),
                               AssigneeIndex(start_idx, week, Len(assignees)))
       IN  IF pos = 0 THEN [heap |-> h, raised |-> "IndexError"]
           ELSE IF ~DatesParse(week) THEN [heap |-> h, raised |-> "ValueError"]
           ELSE [heap |-> AppendEvent(h, assignees[pos],
                                      [name |-> event,
                                       start |-> EventStart(y, week),
                                       end |-> EventEnd(y, week)]),
                 raised |-> "none"]

\* lines 79-88: the iterations for the weeks first..last, in increasing
\* order, stopping at the first one that raises.  The range is walked by
\* halves only to keep the evaluation shallow; the order of the iterations
\* is that of the for loop.
RECURSIVE WeekLoop(_, _, _, _, _, _, _)
WeekLoop(h, assignees, start_idx, y, event, first, last) ==
  IF first > last THEN [heap |-> h, raised |-> "none"]
  ELSE IF first = last THEN WeekBody(h, assignees, start_idx, y, event, first)
  ELSE LET mid == (first + last) \div 2
           left == WeekLoop(h, assignees, start_idx, y, event, first, mid)
       IN  IF left.raised # "none" THEN left
           ELSE WeekLoop(left.heap, assignees, start_idx, y, event, mid + 1, last)

(***************************************************************************)
(* The script and assign_weeks.                                            *)
(***************************************************************************)
NoFrame ==
  [participants |-> 0, event |-> "", start_participant |-> "",
   assignees |-> <<>>, start_idx |-> -1, last_week |-> 0]

Init ==
  /\ year \in Years
  /\ \E n \in RosterSizes :
       /\ heap = BuildRoster(EmptyHeap, n)
       /\ rosters = << [k \in 1..n |-> k] >>
  /\ frame = NoFrame
  /\ pc = "main"
  /\ exc = "none"

\* assign_weeks, lines 65-74: the script calls assign_weeks on one of its
\* lists; the function copies the participants and looks up the start index
AssignWeeksLookup(i, event, start_participant) ==
  /\ pc = "main"
  /\ LET c == CopyAll(heap, rosters[i], Len(rosters[i]))
         idx == StartIdx(c.heap, c.assignees, start_participant)
     IN  /\ heap' = c.heap
         /\ frame' = [participants |-> i, event |-> event,
                      start_participant |-> start_participant,
                      assignees |-> c.assignees, start_idx |-> idx, last_week |-> 0]
         /\ IF idx = -1
              THEN pc' = "exited" /\ exc' = "RuntimeError"
              ELSE pc' = "loop" /\ exc' = "none"
  /\ UNCHANGED <<rosters, year>>

\* assign_weeks, lines 76-90: last_week, the loop over the weeks, the return
AssignWeeksLoop ==
  /\ pc = "loop"
  /\ LET last_week == LastWeek(year)
         r == WeekLoop(heap, frame.assignees, frame.start_idx, year, frame.event,
                       1, RangeLast(last_week))
     IN  /\ heap' = r.heap
         /\ frame' = [frame EXCEPT !.last_week = last_week]
         /\ IF r.raised = "none"
              THEN /\ rosters' = Append(rosters, frame.assignees)
                   /\ pc' = "main"
                   /\ exc' = "none"
              ELSE /\ rosters' = rosters
                   /\ pc' = "exited"
                   /\ exc' = r.raised
  /\ UNCHANGED year

\* the script calls assign_weeks, at most MaxCalls times, each time on any of
\* the lists it holds (its first list or an earlier result)
Next ==
  \/ \E i \in 1..Len(rosters), event \in EventLabels, start_participant \in StartNames :
       Len(rosters) <= MaxCalls /\ AssignWeeksLookup(i, event, start_participant)
  \/ AssignWeeksLoop

Spec == Init /\ [][Next]_vars

\* A script of three calls: two on the base roster and one layering a second
\* event on the first result (example_main.py lines 26-29 thread the result
\* of the first call into the second call).  Call k takes the list
\* rosters[LayeredInputs[k]].
LayeredInputs == <<1, 1, 2>>

NextLayered ==
  \/ \E event \in EventLabels, start_participant \in StartNames :
       /\ Len(rosters) <= Len(LayeredInputs)
       /\ AssignWeeksLookup(LayeredInputs[Len(rosters)], event, start_participant)
  \/ AssignWeeksLoop

SpecLayered == Init /\ [][NextLayered]_vars

(***************************************************************************)
(* What the properties observe.                                            *)
(***************************************************************************)
Range(f) == {f[k] : k \in DOMAIN f}

\* a participant as a caller sees it: the name and the events, by value
ParticipantValue(h, p) ==
  [name |-> h.P[p].name,
   events |-> [j \in 1..Len(EventsOf(h, p)) |-> h.E[EventsOf(h, p)[j]]]]

RosterValue(h, r) == [k \in 1..Len(r) |-> ParticipantValue(h, r[k])]

RosterNames(h, r) == [k \in 1..Len(r) |-> h.P[r[k]].name]

\* the objects reachable from a list of participants
ParticipantRefs(r) == Range(r)
ListRefs(h, r) == {h.P[r[k]].events : k \in 1..Len(r)}
EventRefs(h, r) == UNION {Range(EventsOf(h, r[k])) : k \in 1..Len(r)}

\* no Participant, events list or Event is reachable from both lists
NothingShared(h, r1, r2) ==
  /\ ParticipantRefs(r1) \cap ParticipantRefs(r2) = {}
  /\ ListRefs(h, r1) \cap ListRefs(h, r2) = {}
  /\ EventRefs(h, r1) \cap EventRefs(h, r2) = {}

\* the labels of the events of a list of participants
Labels(h, r) == {h.E[e].name : e \in EventRefs(h, r)}

\* the Monday of ISO week w of ISO year y: w - 1 weeks after the Monday of
\* the week that holds January 4
MondayOfIsoWeek(y, w) ==
  OrdJan(y, 4) - Weekday(OrdJan(y, 4)) + 7 * (w - 1)

\* the number of ISO weeks of ISO year y: the week number of December 28,
\* which is always in the year's last ISO week
IsoWeeksInYear(y) ==
  ((OrdDec(y, 28) - MondayOfIsoWeek(y, 1)) \div 7) + 1

\* the latest call
Called == frame.participants # 0
Input == rosters[frame.participants]
Assignees == frame.assignees
\* the latest call returned its list
Returned == Called /\ pc = "main"
\* the loop of the latest call has run (to its end or to an exception)
LoopRan == Called /\ pc # "loop" /\ exc # "RuntimeError"
\* the latest call's start participant is in its input
StartFound ==
  \E k \in 1..Len(Input) : heap.P[Input[k]].name = frame.start_participant

\* the events the latest call appended to its k-th assignee: those after the
\* copies of the input's events
NumAdded(k) == Len(EventsOf(heap, Assignees[k])) - Len(EventsOf(heap, Input[k]))
\* the start date of the j-th event added to the k-th assignee
AddedStart(k, j) ==
  heap.E[EventsOf(heap, Assignees[k])[Len(EventsOf(heap, Input[k])) + j]].start
Added ==
  UNION {{<<k, j>> : j \in 1..NumAdded(k)} : k \in 1..Len(Assignees)}
\* Event objects are allocated in the order the loop creates them: the
\* event created for week w is the w-th of the last n = NumCreated ones
NumCreated == Cardinality(Added)
CreatedRef(n, w) == Len(heap.E) - n + w

(***************************************************************************)
(* The claims.                                                             *)
(***************************************************************************)

\* C1: when a call returns, with L the last_week it computed, it has added
\* exactly L events in all, and for every week w in 1..L exactly one added
\* event (of exactly one participant) starts on the Monday of ISO week w.
\* (The L added events start on exactly the L distinct Mondays of weeks 1..L,
\* so each week has one event and no event is left for a second.)
C1_EveryWeekOnce ==
  Returned =>
    /\ frame.last_week = LastWeek(year)
    /\ NumCreated = frame.last_week
    /\ {AddedStart(pr[1], pr[2]) : pr \in Added}
         = {MondayOfIsoWeek(year, w) : w \in 1..frame.last_week}

C1_Witness ==
  /\ Returned
  /\ frame.last_week = 52
  /\ Len(Assignees) >= 2

\* C2: the event of ISO week 1 added by a call is appended to the participant
\* named start_participant, the one at start_idx, and to no other.
C2_WeekOneToStart ==
  LoopRan =>
    /\ \E pr \in Added : AddedStart(pr[1], pr[2]) = MondayOfIsoWeek(year, 1)
    /\ \A pr \in Added :
         AddedStart(pr[1], pr[2]) = MondayOfIsoWeek(year, 1) =>
           /\ heap.P[Assignees[pr[1]]].name = frame.start_participant
           /\ \A k \in 1..(pr[1] - 1) :
                heap.P[Assignees[k]].name # frame.start_participant

\* week 1 went to the last participant of a roster of several
C2_Witness ==
  /\ Returned
  /\ Len(Assignees) >= 2
  /\ heap.P[Assignees[Len(Assignees)]].name = frame.start_participant
  /\ NumAdded(Len(Assignees)) >= 1

\* C3: no step of a call, successful or failing, changes the caller's list:
\* it keeps its length and order, each of its participants keeps its name and
\* its events, and a returned list shares no Participant, events list or
\* Event with it.
C3_InputNotMutated ==
  [][ LET i == frame'.participants
      IN  /\ rosters'[i] = rosters[i]
          /\ RosterValue(heap', rosters[i]) = RosterValue(heap, rosters[i])
          /\ (Len(rosters') > Len(rosters) =>
                NothingShared(heap', rosters'[i], rosters'[Len(rosters')]))
    ]_vars

\* a call on a list that already holds events returned a longer schedule
C3_Witness ==
  /\ Returned
  /\ frame.participants = 2
  /\ NumCreated >= 2
  /\ \E k \in 1..Len(Input) : Len(EventsOf(heap, Input[k])) >= 1

\* C4: when no participant of the list (the empty list included) is named
\* start_participant, the call ends with the RuntimeError of lines 72-74
\* before the loop has created an event: nothing is returned, the caller's
\* lists are as before, and the only new Event objects are the copies of the
\* input's events.
C4_NotFoundRaises ==
  [][ LET i == frame'.participants
      IN  (pc = "main" /\
           \A k \in 1..Len(rosters[i]) :
              heap.P[rosters[i][k]].name # frame'.start_participant)
          =>
          /\ pc' = "exited"
          /\ exc' = "RuntimeError"
          /\ rosters' = rosters
          /\ \A r \in 1..Len(rosters) :
               RosterValue(heap', rosters[r]) = RosterValue(heap, rosters[r])
          /\ Len(heap'.E) = Len(heap.E) + Cardinality(EventRefs(heap, rosters[i]))
    ]_vars

\* the call that raised was on a list of several participants with events
C4_Witness ==
  /\ exc = "RuntimeError"
  /\ frame.participants = 2
  /\ Len(Input) >= 2
  /\ \E k \in 1..Len(Input) : Len(EventsOf(heap, Input[k])) >= 1

\* C5: a call whose start participant is present completes without error
\* and assigns every ISO week of the year (53 of them in a year such as 2020,
\* 52 in a year such as 2021), and the end date of the last week's event lies
\* in the next calendar year.
C5_AllWeeksOfTheYear ==
  (Called /\ pc # "loop" /\ StartFound) =>
    LET n == NumCreated
    IN  /\ exc = "none"
        /\ n = IsoWeeksInYear(year)
        /\ heap.E[CreatedRef(n, n)].end > OrdDec(year, 31)
        /\ heap.E[CreatedRef(n, n)].end <= OrdDec(year + 1, 31)

\* the part of C5 about the years of 53 ISO weeks alone
C5_Year53Completes ==
  (Called /\ pc # "loop" /\ StartFound /\ IsoWeeksInYear(year) = 53) =>
    (exc = "none" /\ NumCreated = 53)

\* C6: the last_week a call computes is 52 or 53: the number of the last ISO
\* week of the year, never 1.
C6_LastWeekIs52Or53 ==
  (Called /\ pc # "loop" /\ StartFound) =>
    /\ frame.last_week \in {52, 53}
    /\ frame.last_week = IsoWeeksInYear(year)

\* C7: a returned list has the length of the input and the same names in the
\* same order; each returned participant's events are the input
\* participant's events, unchanged and in order, followed by the added events
\* in increasing week order.
C7_InputThenAdded ==
  Returned =>
    /\ Len(rosters[Len(rosters)]) = Len(Input)
    /\ RosterNames(heap, rosters[Len(rosters)]) = RosterNames(heap, Input)
    /\ \A k \in 1..Len(Input) :
         LET old == ParticipantValue(heap, Input[k]).events
             now == ParticipantValue(heap, rosters[Len(rosters)][k]).events
         IN  /\ Len(now) >= Len(old)
             /\ SubSeq(now, 1, Len(old)) = old
             /\ \A j \in (Len(old) + 1)..Len(now) : now[j].name = frame.event
             /\ \A j \in (Len(old) + 1)..(Len(now) - 1) : now[j].start < now[j + 1].start

\* a participant of the returned list holds earlier events and added ones
C7_Witness ==
  /\ Returned
  /\ \E k \in 1..Len(Input) :
       /\ Len(EventsOf(heap, Input[k])) >= 2
       /\ NumAdded(k) >= 2

\* C8: in the script of three calls (A and B from the base roster R, then C
\* from A) the results are independent: no step changes any list the script
\* already holds, a returned list holds its input's events plus events of
\* the call's own label only, and no two lists share an object.
C8_ResultsIndependent ==
  [][ /\ \A r \in 1..Len(rosters) :
           /\ rosters'[r] = rosters[r]
           /\ RosterValue(heap', rosters[r]) = RosterValue(heap, rosters[r])
      /\ Len(rosters') > Len(rosters) =>
           /\ Labels(heap', rosters'[Len(rosters')])
                = Labels(heap, rosters[frame.participants]) \cup {frame.event}
           /\ \A r \in 1..Len(rosters) :
                NothingShared(heap', rosters'[r], rosters'[Len(rosters')])
    ]_vars

\* R, A, B and C exist; A and B hold one label each, different ones, and C
\* holds both
C8_Witness ==
  /\ Len(rosters) = 4
  /\ Labels(heap, rosters[1]) = {}
  /\ Cardinality(Labels(heap, rosters[2])) = 1
  /\ Cardinality(Labels(heap, rosters[3])) = 1
  /\ Labels(heap, rosters[2]) # Labels(heap, rosters[3])
  /\ Cardinality(Labels(heap, rosters[4])) = 2

\* C9: the event a call creates for week w carries the call's label, starts
\* on the Monday of ISO week w of the year and ends exactly 7 days later, so
\* that the end of week w's event is the start of week w + 1's.
C9_WeekRanges ==
  LoopRan =>
    LET n == NumCreated
    IN  /\ \A w \in 1..n :
             /\ heap.E[CreatedRef(n, w)].name = frame.event
             /\ heap.E[CreatedRef(n, w)].start = MondayOfIsoWeek(year, w)
             /\ heap.E[CreatedRef(n, w)].end = heap.E[CreatedRef(n, w)].start + 7
        /\ \A w \in 1..(n - 1) :
             heap.E[CreatedRef(n, w)].end = heap.E[CreatedRef(n, w + 1)].start

\* the last event of a 52-week schedule ends in the next calendar year
C9_Witness ==
  /\ Returned
  /\ NumCreated = 52
  /\ heap.E[CreatedRef(52, 52)].end > OrdDec(year, 31)

\* C10: the index (start_idx + w) % N - 1, with -1 selecting the last
\* element, never falls outside the list and designates position
\* (start_idx + w - 1) mod N, so that the numbers of events added to any two
\* participants differ by at most 1.
C10_RoundRobin ==
  LoopRan =>
    LET n == NumCreated
    IN  /\ exc \in {"none", "ValueError"}
        /\ LET added == [k \in 1..Len(Assignees) |->
                          {EventsOf(heap, Assignees[k])[Len(EventsOf(heap, Input[k])) + j] :
                             j \in 1..NumAdded(k)}]
           IN  \A w \in 1..n :
                 CreatedRef(n, w) \in added[((frame.start_idx + w - 1) % Len(Assignees)) + 1]
        /\ \A k1, k2 \in 1..Len(Assignees) : NumAdded(k1) - NumAdded(k2) <= 1

\* the index was -1 for some week and the weeks do not divide evenly
C10_Witness ==
  /\ LoopRan
  /\ Len(Assignees) >= 2
  /\ NumCreated >= Len(Assignees)
  /\ \E k1, k2 \in 1..Len(Assignees) : NumAdded(k1) = NumAdded(k2) + 1

====
